---- MODULE Spec2Model ----
(***************************************************************************)
(* arstyper: the typing test engine (src/src/test.rs) and the bounded      *)
(* channel it signals completion on (src/src/ui/mod.rs).                   *)
(*                                                                         *)
(* A char is its Unicode scalar value.  A String is a sequence of chars;   *)
(* String::len() is its UTF-8 byte length (StrLen), chars().nth(n) counts  *)
(* chars (CharsNth).  Vec indices are 0-based as in the source: element i  *)
(* of a Vec is element i + 1 of the sequence that models it.               *)
(* Keypress._time is written by from_chr and never read: it is left out.   *)
(***************************************************************************)
EXTENDS Integers, Sequences, FiniteSets

VARIABLES
    words,      \* Test.words: Vec<TestWord>, each [word, presses, spans]
    word_i,     \* Test.word_i: usize
    tx,         \* the messages queued in the sync_channel behind Test.tx
    pc,         \* where the engine is: "running", "blocked" (in send), "panicked"
    sent,       \* number of messages the engine has put on the channel so far
    key,        \* the KeyEvent of the latest handle_events call
    nevents,    \* number of handle_events calls so far
    on_script,  \* every key so far was the next key of Script(words)
    ret,        \* what is_correct returned to test_keypress_correct
    line,       \* what words_to_line returned for the state as it is now
    lang,       \* Lang::get_by_path: the language file and what it returned
    ui          \* the Ui that owns the Test: state, screen, last_screen, loop position

vars == <<words, word_i, tx, pc, sent, key, nevents, on_script, ret, line, lang, ui>>

-----------------------------------------------------------------------------
(* Bounds *)

MaxWords == 2
MaxEvents == 5
MaxPresses == 5
MaxLines == 3

-----------------------------------------------------------------------------
(* Constants of the program *)

BKSPC == 8
WORD_BKSPC == 24
SPACE == 32
ChanCap == 2
\* usize::MAX, cut to the range of the checker's integers: the only use of
\* the wrapped cursor is that it is no index of words
USIZE_MAX == 2147483647

\* 'a' and U+00E9 (two UTF-8 bytes): the chars a user types
TypedChars == {97, 233}

\* Lang.words of the loaded language file, one String per line after the
\* delimiter: "A", "aa", "a\u{e9}"
LangWords == {<<65>>, <<97, 97>>, <<97, 233>>}

Option_None == <<>>
Some(x) == <<x>>

-----------------------------------------------------------------------------
(* Strings *)

Utf8Len(c) == IF c < 128 THEN 1 ELSE IF c < 2048 THEN 2 ELSE IF c < 65536 THEN 3 ELSE 4

RECURSIVE StrLen(_)
StrLen(s) == IF s = <<>> THEN 0 ELSE Utf8Len(Head(s)) + StrLen(Tail(s))

CharsNth(s, n) == IF n < Len(s) THEN Some(s[n + 1]) ELSE Option_None

CharLower(c) ==
    IF (65 <= c /\ c <= 90) \/ (192 <= c /\ c <= 222 /\ c # 215) THEN c + 32 ELSE c

to_lowercase(s) == [i \in 1..Len(s) |-> CharLower(s[i])]

StrPop(s) == IF s = <<>> THEN s ELSE SubSeq(s, 1, Len(s) - 1)

-----------------------------------------------------------------------------
(* TestWord *)

TestWordFrom(string) == [word |-> string, presses |-> <<>>, spans |-> <<>>]

SpanStyled(chr, sty) == [content |-> <<chr>>, style |-> sty]

\* space is pushed like any other char
is_correct_arm_space_pushed(s, k) ==
    CASE k = BKSPC -> StrPop(s)
      [] k = WORD_BKSPC -> <<>>
      [] OTHER -> Append(s, k)

is_correct_arm(s, k) ==
    CASE k = SPACE -> s
      [] k = BKSPC -> StrPop(s)
      [] k = WORD_BKSPC -> <<>>
      [] OTHER -> Append(s, k)

RECURSIVE is_correct_loop(_, _, _)
is_correct_loop(presses, i, s) ==
    IF i > Len(presses) THEN s
    ELSE is_correct_loop(presses, i + 1, is_correct_arm(s, presses[i]))

is_correct(tw) == is_correct_loop(tw.presses, 1, <<>>) = tw.word

\* a word with no keypress at all counts as typed
is_typed_empty_log(tw) ==
    IF tw.presses = <<>> \/ tw.presses[Len(tw.presses)] = SPACE
    THEN TRUE
    ELSE is_correct_loop(tw.presses, 1, <<>>) = tw.word

is_typed(tw) ==
    IF tw.presses # <<>> /\ tw.presses[Len(tw.presses)] = SPACE
    THEN TRUE
    ELSE is_correct(tw)

-----------------------------------------------------------------------------
(* KeyEvent *)

KeyChar(c) == [code |-> "Char", chr |-> c, modifiers |-> {}]
KeyBackspace(m) == [code |-> "Backspace", chr |-> 0, modifiers |-> m]
KeyEnter == [code |-> "Enter", chr |-> 0, modifiers |-> {}]
NoKey == [code |-> "None", chr |-> 0, modifiers |-> {}]

Keys ==
    {KeyChar(c) : c \in TypedChars \cup {SPACE}}
    \cup {KeyBackspace(m) : m \in {{}, {"CONTROL"}, {"ALT"}}}
    \cup {KeyEnter}

-----------------------------------------------------------------------------
(* Ui: the screens and the key handlers of the host (ui/mod.rs).  The      *)
(* status line (set_status_for, clear_status) decides nothing and is left  *)
(* out.                                                                    *)

Screens == {"TestScreen", "ResultsScreen", "StatisticsScreen", "AboutScreen"}

KeyF1 == [code |-> "F1", chr |-> 0, modifiers |-> {}]
KeyEsc == [code |-> "Esc", chr |-> 0, modifiers |-> {}]
KeyQ == KeyChar(113)
KeyCtrlC == [code |-> "Char", chr |-> 99, modifiers |-> {"CONTROL"}]

\* the keys a user presses in the host: the host's own and, of those of the
\* test, a char, the space and plain Backspace
UiKeys ==
    {KeyF1, KeyEsc, KeyQ, KeyCtrlC, KeyChar(97), KeyChar(SPACE), KeyBackspace({})}

\* Ui::new.  at is the place in the loop of Ui::run; nkeys counts the keys
\* read, key is the latest of them; opened_from remembers the screen that
\* was shown when the About screen was last opened from another screen
UiNew(at) ==
    [state |-> "Running", screen |-> "TestScreen", last_screen |-> "TestScreen",
     at |-> at, nkeys |-> 0, key |-> NoKey, opened_from |-> "TestScreen"]

\* the Ui of a Test that is driven without its host loop
NoUi == UiNew("none")

\* last_screen is not updated
change_screen_keep_last(u, s) == [u EXCEPT !.screen = s]

change_screen(u, s) == [u EXCEPT !.last_screen = u.screen, !.screen = s]

\* global keys
global_keys(u, k) ==
    CASE k.code = "Char" /\ k.chr = 99 ->
            IF "CONTROL" \in k.modifiers THEN [u EXCEPT !.state = "Stopped"] ELSE u
      [] k.code = "F1" -> change_screen(u, "AboutScreen")
      [] OTHER -> u

handle_about_events(u, k) ==
    IF k.code = "Esc" \/ (k.code = "Char" /\ k.chr = 113)
    THEN change_screen(u, u.last_screen)
    ELSE u

-----------------------------------------------------------------------------
(* Test::handle_events: the match on key.code.  Each arm yields the set of *)
(* outcomes [words, word_i, panic] the builds of the program can produce.  *)

Outcome(ws, wi, p) == [words |-> ws, word_i |-> wi, panic |-> p]

\* space does not advance when nothing was typed for the word
arm_space_needs_input(ws, wi) ==
    {Outcome([ws EXCEPT ![wi + 1].presses = Append(@, SPACE)],
             IF ws[wi + 1].spans = <<>> THEN wi ELSE wi + 1, FALSE)}

arm_space(ws, wi) ==
    {Outcome([ws EXCEPT ![wi + 1].presses = Append(@, SPACE)], wi + 1, FALSE)}

\* the incorrect span is pushed after a correct press too (no else)
arm_char_no_else(ws, wi, chr) ==
    LET word == ws[wi + 1]
        pushed == [ws EXCEPT ![wi + 1].presses = Append(@, chr)]
        len == Len(word.spans)
        incorrect == [pushed EXCEPT ![wi + 1].spans = Append(@, SpanStyled(chr, "incorrect"))]
        both == [pushed EXCEPT ![wi + 1].spans =
                    Append(Append(@, SpanStyled(chr, "typed")), SpanStyled(chr, "incorrect"))]
    IN  IF len < StrLen(word.word)
        THEN IF CharsNth(word.word, len) = Option_None
             THEN {Outcome(pushed, wi, TRUE)}
             ELSE IF chr = CharsNth(word.word, len)[1]
                  THEN {Outcome(both, wi, FALSE)}
                  ELSE {Outcome(incorrect, wi, FALSE)}
        ELSE {Outcome(incorrect, wi, FALSE)}

\* line 111 pushes the key before line 115 can panic: len is compared with
\* the byte length of the target, chars().nth(len) counts chars, and
\* unwrap panics on None
arm_char(ws, wi, chr) ==
    LET word == ws[wi + 1]
        pushed == [ws EXCEPT ![wi + 1].presses = Append(@, chr)]
        len == Len(word.spans)
        typed == [pushed EXCEPT ![wi + 1].spans = Append(@, SpanStyled(chr, "typed"))]
        incorrect == [pushed EXCEPT ![wi + 1].spans = Append(@, SpanStyled(chr, "incorrect"))]
    IN  IF len < StrLen(word.word)
        THEN IF CharsNth(word.word, len) = Option_None
             THEN {Outcome(pushed, wi, TRUE)}
             ELSE IF chr = CharsNth(word.word, len)[1]
                  THEN {Outcome(typed, wi, FALSE)}
                  ELSE {Outcome(incorrect, wi, FALSE)}
        ELSE {Outcome(incorrect, wi, FALSE)}

word_bkspc_on(ws, wi) ==
    Outcome([ws EXCEPT ![wi + 1].presses = Append(@, WORD_BKSPC),
                       ![wi + 1].spans = <<>>], wi, FALSE)

\* WORD_BKSPC is logged on the empty slot too, before the step back
arm_word_bkspc_both(ws, wi) ==
    IF Len(ws[wi + 1].spans) = 0
    THEN IF wi = 0
         THEN {Outcome(ws, wi, TRUE), Outcome(ws, USIZE_MAX, TRUE)}
         ELSE {word_bkspc_on([ws EXCEPT ![wi + 1].presses = Append(@, WORD_BKSPC)], wi - 1)}
    ELSE {word_bkspc_on(ws, wi)}

\* self.word_i -= 1 at 0: a build with overflow checks panics at the
\* subtraction, a build without them wraps and panics at words[word_i]
arm_word_bkspc(ws, wi) ==
    IF Len(ws[wi + 1].spans) = 0
    THEN IF wi = 0
         THEN {Outcome(ws, wi, TRUE), Outcome(ws, USIZE_MAX, TRUE)}
         ELSE {word_bkspc_on(ws, wi - 1)}
    ELSE {word_bkspc_on(ws, wi)}

\* the cursor steps back first and BKSPC is logged on the slot stepped into
arm_bkspc_log_previous(ws, wi) ==
    IF wi > 0 /\ Len(ws[wi + 1].spans) <= 1
    THEN {Outcome([ws EXCEPT ![wi + 1].spans = <<>>,
                             ![wi].presses = Append(@, BKSPC)], wi - 1, FALSE)}
    ELSE {Outcome([ws EXCEPT ![wi + 1].presses = Append(@, BKSPC),
                             ![wi + 1].spans = StrPop(@)], wi, FALSE)}

\* the cursor never steps back
arm_bkspc_keep_cursor(ws, wi) ==
    {Outcome([ws EXCEPT ![wi + 1].presses = Append(@, BKSPC),
                        ![wi + 1].spans = StrPop(@)], wi, FALSE)}

\* the step back is not guarded by word_i > 0
arm_bkspc_unguarded(ws, wi) ==
    LET popped == [ws EXCEPT ![wi + 1].presses = Append(@, BKSPC),
                             ![wi + 1].spans = StrPop(@)]
    IN  IF Len(popped[wi + 1].spans) = 0
        THEN IF wi = 0
             THEN {Outcome(popped, wi, TRUE), Outcome(popped, USIZE_MAX, TRUE)}
             ELSE {Outcome(popped, wi - 1, FALSE)}
        ELSE {Outcome(popped, wi, FALSE)}

\* the last entry is removed but BKSPC is not logged
arm_bkspc_no_log(ws, wi) ==
    LET popped == [ws EXCEPT ![wi + 1].spans = StrPop(@)]
    IN  IF wi > 0 /\ Len(popped[wi + 1].spans) = 0
        THEN {Outcome(popped, wi - 1, FALSE)}
        ELSE {Outcome(popped, wi, FALSE)}

arm_bkspc(ws, wi) ==
    LET popped == [ws EXCEPT ![wi + 1].presses = Append(@, BKSPC),
                             ![wi + 1].spans = StrPop(@)]
    IN  IF wi > 0 /\ Len(popped[wi + 1].spans) = 0
        THEN {Outcome(popped, wi - 1, FALSE)}
        ELSE {Outcome(popped, wi, FALSE)}

is_word_delete(k) == k.modifiers \cap {"CONTROL", "ALT"} # {}

\* line 104 indexes words[word_i] before the match: out of range panics
match_key(ws, wi, k) ==
    IF wi >= Len(ws)
    THEN {Outcome(ws, wi, TRUE)}
    ELSE CASE k.code = "Char" /\ k.chr = SPACE -> arm_space(ws, wi)
           [] k.code = "Char" /\ k.chr # SPACE -> arm_char(ws, wi, k.chr)
           [] k.code = "Backspace" /\ is_word_delete(k) -> arm_word_bkspc(ws, wi)
           [] k.code = "Backspace" /\ ~is_word_delete(k) -> arm_bkspc(ws, wi)
           [] OTHER -> {Outcome(ws, wi, FALSE)}

\* the cursor is compared with words.len() instead of words.len() - 1
is_complete_off_by_one(ws, wi) == wi >= Len(ws) /\ is_typed(ws[Len(ws)])

is_complete(ws, wi) == wi >= Len(ws) - 1 /\ is_typed(ws[Len(ws)])

-----------------------------------------------------------------------------
(* Test::tw_as_span_vec and Test::words_to_line.  A result is             *)
(* [status, spans]: status "ok" with the spans, or "panic".                *)

NoLine == [status |-> "none", spans |-> <<>>]
Rendered(sv) == [status |-> "ok", spans |-> sv]
RenderPanic == [status |-> "panic", spans |-> <<>>]

Span(content, sty) == [content |-> content, style |-> sty]

Min(a, b) == IF a <= b THEN a ELSE b

\* the number of leading chars of s that take up exactly idx bytes, or -1
\* when idx falls inside a char
CharsBefore(s, idx) ==
    LET ns == {n \in 0..Len(s) : StrLen(SubSeq(s, 1, n)) = idx}
    IN  IF ns = {} THEN -1 ELSE CHOOSE n \in ns : TRUE

\* &s[idx..]: panics unless idx is on a char boundary (idx <= s.len() here)
StrFrom(s, idx) ==
    IF CharsBefore(s, idx) = -1 THEN RenderPanic
    ELSE Rendered(SubSeq(s, CharsBefore(s, idx) + 1, Len(s)))

untyped_portion(sv, tw) ==
    LET idx == Min(Len(sv), StrLen(tw.word))
        ut == StrFrom(tw.word, idx)
    IN  IF ut.status = "panic" THEN RenderPanic
        ELSE Rendered(Append(sv, Span(ut.spans \o <<SPACE>>, "untyped")))

tw_as_span_vec(self_word_i, i, tw) ==
    LET sv == tw.spans
    IN  IF self_word_i = i
        THEN IF CharsNth(tw.word, Len(sv)) = Option_None
             THEN Rendered(Append(sv, Span(<<SPACE>>, "cursor")))
             ELSE untyped_portion(
                    Append(sv, Span(<<CharsNth(tw.word, Len(sv))[1]>>, "cursor")), tw)
        ELSE untyped_portion(sv, tw)

RECURSIVE Flatten(_)
Flatten(svs) == IF svs = <<>> THEN <<>> ELSE Head(svs) \o Flatten(Tail(svs))

words_to_line(ws, self_word_i) ==
    LET svs == [i \in 1..Len(ws) |-> tw_as_span_vec(self_word_i, i - 1, ws[i])]
    IN  IF \E i \in 1..Len(ws) : svs[i].status = "panic"
        THEN RenderPanic
        ELSE Rendered(Flatten([i \in 1..Len(ws) |-> svs[i].spans]))

-----------------------------------------------------------------------------
(* Lang::get_by_path.  The file is the lines BufRead::lines() yields up to *)
(* the first one it cannot read (map_while(Result::ok)).                   *)

WORDLIST_DELIM == "-----BEGIN WORDLIST-----"

LineKinds ==
    {"inorder", "punctuated", "select_one", "select_all", WORDLIST_DELIM, "ab", "cd"}

LangNew ==
    [inorder |-> FALSE, inorder_index |-> 0, punctuated |-> FALSE,
     select_one |-> FALSE, select_all |-> FALSE, words |-> <<>>]

LangState(status, exists, file, s) ==
    [status |-> status, exists |-> exists, file |-> file, s |-> s]

NoLang == LangState("none", FALSE, <<>>, LangNew)

\* the delimiter ends the header wherever it stands, so a second delimiter
\* is not kept as a word
get_by_path_line_delim_anywhere(st, l) ==
    IF l = WORDLIST_DELIM
    THEN [st EXCEPT !.header = FALSE]
    ELSE IF st.header
         THEN CASE l = "inorder" -> [st EXCEPT !.s.inorder = TRUE]
                [] l = "punctuated" -> [st EXCEPT !.s.punctuated = TRUE]
                [] l = "select_one" -> [st EXCEPT !.s.select_one = TRUE]
                [] l = "select_all" -> [st EXCEPT !.s.select_all = TRUE]
                [] OTHER -> st
         ELSE [st EXCEPT !.s.words = Append(@, l)]

get_by_path_line(st, l) ==
    IF st.header
    THEN IF l = WORDLIST_DELIM
         THEN [st EXCEPT !.header = FALSE]
         ELSE CASE l = "inorder" -> [st EXCEPT !.s.inorder = TRUE]
                [] l = "punctuated" -> [st EXCEPT !.s.punctuated = TRUE]
                [] l = "select_one" -> [st EXCEPT !.s.select_one = TRUE]
                [] l = "select_all" -> [st EXCEPT !.s.select_all = TRUE]
                [] OTHER -> st
    ELSE [st EXCEPT !.s.words = Append(@, l)]

RECURSIVE get_by_path_loop(_, _, _)
get_by_path_loop(buf, i, st) ==
    IF i > Len(buf) THEN st
    ELSE get_by_path_loop(buf, i + 1, get_by_path_line(st, buf[i]))

\* File::open failed, or both select_one and select_all: process::exit(1)
get_by_path ==
    /\ lang.status = "path"
    /\ lang' =
        IF ~lang.exists
        THEN [lang EXCEPT !.status = "exited"]
        ELSE LET st == get_by_path_loop(lang.file, 1, [header |-> TRUE, s |-> LangNew])
             IN  IF st.s.select_one /\ st.s.select_all
                 THEN LangState("exited", TRUE, lang.file, st.s)
                 ELSE LangState("returned", TRUE, lang.file, st.s)
    /\ UNCHANGED <<words, word_i, tx, pc, sent, key, nevents, on_script, ret, line, ui>>

Files == UNION {[1..n -> LineKinds] : n \in 0..MaxLines}

InitLang ==
    /\ \/ \E f \in Files : lang = LangState("path", TRUE, f, LangNew)
       \/ lang = LangState("path", FALSE, <<>>, LangNew)
    /\ words = <<>>
    /\ word_i = 0
    /\ tx = <<>>
    /\ pc = "running"
    /\ sent = 0
    /\ key = NoKey
    /\ nevents = 0
    /\ on_script = TRUE
    /\ ret = "none"
    /\ line = NoLine
    /\ ui = NoUi

NextLang == get_by_path

SpecLang == InitLang /\ [][NextLang]_vars

-----------------------------------------------------------------------------
(* The keys of a flawless run: every word in order, one space between.     *)

RECURSIVE Script(_)
Script(ws) ==
    IF ws = <<>> THEN <<>>
    ELSE IF Len(ws) = 1 THEN ws[1].word
    ELSE ws[1].word \o <<SPACE>> \o Script(Tail(ws))

NextOnScript(k) ==
    /\ on_script
    /\ nevents < Len(Script(words))
    /\ k = KeyChar(Script(words)[nevents + 1])

-----------------------------------------------------------------------------
(* The program *)

test_from(ws) == [i \in 1..Len(ws) |-> TestWordFrom(to_lowercase(ws[i]))]

gen_words(n) == [1..n -> LangWords]

Init ==
    /\ \E n \in 0..MaxWords : \E ws \in gen_words(n) : words = test_from(ws)
    /\ word_i = 0
    /\ tx = <<>>
    /\ pc = "running"
    /\ sent = 0
    /\ key = NoKey
    /\ nevents = 0
    /\ on_script = TRUE
    /\ ret = "none"
    /\ line = NoLine
    /\ lang = NoLang
    /\ ui = NoUi

ChangeScreen == "ChangeScreen(ResultsScreen)"

\* SyncSender::send on the bounded channel: queues the message when there
\* is room and blocks the caller otherwise.  The receiver lives in the Ui
\* that owns the Test, so send never returns Err here.
Test_handle_events(k) ==
    /\ key' = k
    /\ nevents' = nevents + 1
    /\ on_script' = NextOnScript(k)
    /\ line' = NoLine
    /\ UNCHANGED <<ret, lang>>
    /\ \E r \in match_key(words, word_i, k) :
        /\ words' = r.words
        /\ word_i' = r.word_i
        /\ IF r.panic
           THEN pc' = "panicked" /\ UNCHANGED <<tx, sent>>
           ELSE IF is_complete(r.words, r.word_i)
                THEN IF Len(tx) < ChanCap
                     THEN /\ tx' = Append(tx, ChangeScreen)
                          /\ sent' = sent + 1
                          /\ pc' = "running"
                     ELSE pc' = "blocked" /\ UNCHANGED <<tx, sent>>
                ELSE UNCHANGED <<tx, sent, pc>>

\* a key event handed to the Test, whatever the host does with the channel
handle_events(k) ==
    /\ pc = "running"
    /\ line.status # "panic"
    /\ nevents < MaxEvents
    /\ Test_handle_events(k)
    /\ UNCHANGED ui

\* the send of handle_events that found the channel full goes through once
\* the receiver has made room
send_resume ==
    /\ pc = "blocked"
    /\ line.status # "panic"
    /\ Len(tx) < ChanCap
    /\ tx' = Append(tx, ChangeScreen)
    /\ sent' = sent + 1
    /\ pc' = "running"
    /\ UNCHANGED <<words, word_i, key, nevents, on_script, ret, line, lang, ui>>

\* the host's non-blocking poll of the channel
try_recv ==
    /\ tx # <<>>
    /\ line.status # "panic"
    /\ tx' = Tail(tx)
    /\ UNCHANGED <<words, word_i, pc, sent, key, nevents, on_script, ret, line, lang, ui>>

\* Test::render, called by the host's draw while the test screen is shown
render ==
    /\ pc = "running"
    /\ line.status = "none"
    /\ line' = words_to_line(words, word_i)
    /\ UNCHANGED <<words, word_i, tx, pc, sent, key, nevents, on_script, ret, lang, ui>>

Next ==
    \/ \E k \in Keys : handle_events(k)
    \/ render
    \/ send_resume
    \/ try_recv

Spec == Init /\ [][Next]_vars

-----------------------------------------------------------------------------
(* tests::test_keypress_correct: a TestWord is built from a word, its      *)
(* presses are set to an arbitrary list of keys, and is_correct is called. *)

PressChars == TypedChars \cup {SPACE, BKSPC, WORD_BKSPC}

InitReplay ==
    /\ \E w \in LangWords \cup {<<>>} : words = <<TestWordFrom(to_lowercase(w))>>
    /\ word_i = 0
    /\ tx = <<>>
    /\ pc = "running"
    /\ sent = 0
    /\ key = NoKey
    /\ nevents = 0
    /\ on_script = TRUE
    /\ ret = "none"
    /\ line = NoLine
    /\ lang = NoLang
    /\ ui = NoUi

push_press(c) ==
    /\ ret = "none"
    /\ Len(words[1].presses) < MaxPresses
    /\ words' = [words EXCEPT ![1].presses = Append(@, c)]
    /\ UNCHANGED <<word_i, tx, pc, sent, key, nevents, on_script, ret, line, lang, ui>>

call_is_correct ==
    /\ ret = "none"
    /\ ret' = IF is_correct(words[1]) THEN "true" ELSE "false"
    /\ UNCHANGED <<words, word_i, tx, pc, sent, key, nevents, on_script, line, lang, ui>>

NextReplay ==
    \/ \E c \in PressChars : push_press(c)
    \/ call_is_correct

SpecReplay == InitReplay /\ [][NextReplay]_vars

-----------------------------------------------------------------------------
(* Ui::run: the loop of the host, one thread.  Each pass draws, handles at *)
(* most one key (Ui::handle_events) and polls the channel once (try_recv). *)
(* A panic of the Test or a send that blocks ends the loop where it is.    *)

InitUi ==
    /\ \E n \in 0..MaxWords : \E ws \in gen_words(n) : words = test_from(ws)
    /\ word_i = 0
    /\ tx = <<>>
    /\ pc = "running"
    /\ sent = 0
    /\ key = NoKey
    /\ nevents = 0
    /\ on_script = TRUE
    /\ ret = "none"
    /\ line = NoLine
    /\ lang = NoLang
    /\ ui = UiNew("draw")

\* terminal.draw: Widget::render of the Ui calls Test::render on the test
\* screen only
Ui_draw ==
    /\ ui.at = "draw"
    /\ pc = "running"
    /\ line.status # "panic"
    /\ line' = IF ui.screen = "TestScreen" THEN words_to_line(words, word_i) ELSE line
    /\ ui' = [ui EXCEPT !.at = "events"]
    /\ UNCHANGED <<words, word_i, tx, pc, sent, key, nevents, on_script, ret, lang>>

\* the Ui after the key k was handled: u is what the handlers made of it
KeyHandled(u, k) ==
    [u EXCEPT !.at = "recv",
              !.nkeys = IF k = NoKey THEN ui.nkeys ELSE ui.nkeys + 1,
              !.key = k,
              !.opened_from = IF u.screen = "AboutScreen" /\ ui.screen # "AboutScreen"
                              THEN ui.screen ELSE ui.opened_from]

\* Ui::handle_events.  NoKey: poll timed out, or the event was no key press.
\* The per-screen match reads self.screen after the global keys have run.
Ui_handle_events(k) ==
    /\ ui.at = "events"
    /\ pc = "running"
    /\ line.status # "panic"
    /\ k # NoKey => ui.nkeys < MaxEvents
    /\ LET g == IF k = NoKey THEN ui ELSE global_keys(ui, k)
       IN  CASE k # NoKey /\ g.screen = "AboutScreen" ->
                    /\ ui' = KeyHandled(handle_about_events(g, k), k)
                    /\ UNCHANGED <<words, word_i, tx, pc, sent, key, nevents,
                                   on_script, ret, line, lang>>
             [] k # NoKey /\ g.screen = "TestScreen" ->
                    /\ ui' = KeyHandled(g, k)
                    /\ Test_handle_events(k)
             [] OTHER ->
                    /\ ui' = KeyHandled(g, k)
                    /\ UNCHANGED <<words, word_i, tx, pc, sent, key, nevents,
                                   on_script, ret, line, lang>>

\* message handling: UiRequest::ChangeScreen(s) => self.screen = s, and the
\* while condition of the next pass
Ui_try_recv ==
    /\ ui.at = "recv"
    /\ pc = "running"
    /\ line.status # "panic"
    /\ tx' = IF tx = <<>> THEN tx ELSE Tail(tx)
    /\ ui' = [ui EXCEPT !.screen = IF tx = <<>> THEN @ ELSE "ResultsScreen",
                        !.at = IF ui.state = "Stopped" THEN "done" ELSE "draw"]
    /\ UNCHANGED <<words, word_i, pc, sent, key, nevents, on_script, ret, line, lang>>

NextUi ==
    \/ Ui_draw
    \/ \E k \in UiKeys \cup {NoKey} : Ui_handle_events(k)
    \/ Ui_try_recv

SpecUi == InitUi /\ [][NextUi]_vars

-----------------------------------------------------------------------------
(* What a key log amounts to, stated without replaying it: the press at j  *)
(* is still part of the string at the end iff it is a printable char, no   *)
(* WORD_BKSPC follows it, and no BKSPC after it finds every char typed     *)
(* after j already deleted.                                                *)

Printable(c) == c \notin {SPACE, BKSPC, WORD_BKSPC}

NumBkspc(log, lo, hi) == Cardinality({k \in lo..hi : log[k] = BKSPC})
NumPrintable(log, lo, hi) == Cardinality({k \in lo..hi : Printable(log[k])})

Survives(log, j) ==
    /\ Printable(log[j])
    /\ \A k \in (j + 1)..Len(log) :
        /\ log[k] # WORD_BKSPC
        /\ NumBkspc(log, j + 1, k) <= NumPrintable(log, j + 1, k)

Survivors(log) == {j \in 1..Len(log) : Survives(log, j)}

ReplayYields(log, word) ==
    /\ Cardinality(Survivors(log)) = Len(word)
    /\ \A j \in Survivors(log) :
        log[j] = word[Cardinality({i \in Survivors(log) : i <= j})]

TypedSlot(tw) ==
    \/ tw.presses # <<>> /\ tw.presses[Len(tw.presses)] = SPACE
    \/ ReplayYields(tw.presses, tw.word)

HandledEvent == nevents' = nevents + 1

NonEmptyWords == Len(words) >= 1 /\ \A i \in 1..Len(words) : words[i].word # <<>>

-----------------------------------------------------------------------------
(* Claims *)

\* C1: over the Test's lifetime the engine sends exactly one completion
\* message, whatever keys follow completion and whether or not the host has
\* drained the channel: it never sends a second one.
C1_SingleSignal == sent <= 1

\* C2: on a Test with at least one word, word_i stays within
\* 0 .. len(words) - 1 after any sequence of key events, so that
\* handle_events never indexes outside the slot list.
C2_CursorInBounds ==
    Len(words) >= 1 => (0 <= word_i /\ word_i <= Len(words) - 1)

\* C3 as stated: in every reachable state every slot has at most as many
\* classification entries (spans) as its target word has characters.
C3_SpansWithinTarget ==
    \A i \in 1..Len(words) : Len(words[i].spans) <= Len(words[i].word)

\* C3 as amended: every slot has at most as many classification entries as
\* its key log has printable-character key events; the target length does
\* not bound them.
C3_SpansWithinPrintablePresses ==
    \A i \in 1..Len(words) :
        Len(words[i].spans) <= NumPrintable(words[i].presses, 1, Len(words[i].presses))

\* a slot typed past the end of its target word
C3_OverTyped ==
    \E i \in 1..Len(words) :
        /\ Len(words[i].spans) > Len(words[i].word)
        /\ words[i].word # <<>>
        /\ pc = "running"

\* C4: a printable-character event c on the active slot appends exactly one
\* key event and exactly one classification entry to that slot; the entry is
\* tagged correct iff the classification length len is below the target
\* length and c is the target character at len, and incorrect otherwise,
\* over-typing included.
C4_CharAppendsOneEntry ==
    [][(/\ HandledEvent
        /\ word_i < Len(words)
        /\ key'.code = "Char"
        /\ key'.chr # SPACE)
       => LET old == words[word_i + 1]
              new == words'[word_i + 1]
              len == Len(old.spans)
          IN  /\ pc' # "panicked"
              /\ new.presses = Append(old.presses, key'.chr)
              /\ Len(new.spans) = len + 1
              /\ SubSeq(new.spans, 1, len) = old.spans
              /\ new.spans[len + 1].content = <<key'.chr>>
              /\ new.spans[len + 1].style =
                    IF len < Len(old.word) /\ key'.chr = old.word[len + 1]
                    THEN "typed" ELSE "incorrect"]_vars

\* C5: a delete-word event (Backspace with CONTROL or ALT) when word_i = 0
\* and the first slot's classification is empty leaves word_i at 0 and the
\* classification empty, without underflow or failure.
C5_WordDeleteOnEmptyFirstSlot ==
    [][(/\ HandledEvent
        /\ Len(words) >= 1
        /\ word_i = 0
        /\ words[1].spans = <<>>
        /\ key'.code = "Backspace"
        /\ key'.modifiers \cap {"CONTROL", "ALT"} # {})
       => (/\ word_i' = 0
           /\ words'[1].spans = <<>>
           /\ pc' # "panicked")]_vars

\* C6: a delete-character event (plain Backspace) when word_i = 0 and the
\* first slot's classification is empty leaves word_i at 0 and the
\* classification empty, and does not panic.
C6_DeleteCharOnEmptyFirstSlot ==
    [][(/\ HandledEvent
        /\ Len(words) >= 1
        /\ word_i = 0
        /\ words[1].spans = <<>>
        /\ key'.code = "Backspace"
        /\ key'.modifiers \cap {"CONTROL", "ALT"} = {})
       => (/\ word_i' = 0
           /\ words'[1].spans = <<>>
           /\ pc' # "panicked")]_vars

\* plain Backspace was the first key of a test with two words
C6_Witness ==
    /\ Len(words) = 2
    /\ nevents = 1
    /\ key = KeyBackspace({})
    /\ word_i = 0
    /\ words[1].spans = <<>>
    /\ words[1].presses = <<BKSPC>>

\* C7: is_correct returns true exactly when the key log, replayed in order
\* (a char is appended, BKSPC removes the last char and does nothing on the
\* empty string, WORD_BKSPC empties the string, space is ignored), yields
\* the target word.
C7_IsCorrectIsReplay ==
    ret # "none" => (ret = "true" <=> ReplayYields(words[1].presses, words[1].word))

\* is_correct returned true for a log that holds a correction and a space
C7_Witness ==
    /\ ret = "true"
    /\ words[1].word # <<>>
    /\ \E j \in 1..Len(words[1].presses) : words[1].presses[j] \in {BKSPC, WORD_BKSPC}
    /\ \E j \in 1..Len(words[1].presses) : words[1].presses[j] = SPACE

\* C8: a handle_events call that returns has sent a completion message iff
\* word_i has reached the final slot index and the final slot is typed (its
\* latest key event is a space, or its replayed log equals its target); no
\* message is sent while word_i is below the final slot index.
C8_SentIffComplete ==
    [][/\ (HandledEvent /\ pc' = "running")
            => /\ sent' \in {sent, sent + 1}
               /\ (sent' = sent + 1) <=>
                    (word_i' >= Len(words') - 1 /\ TypedSlot(words'[Len(words')]))
       /\ (pc = "blocked" /\ pc' = "running")
            => /\ sent' = sent + 1
               /\ word_i' >= Len(words') - 1
               /\ TypedSlot(words'[Len(words')])
       /\ (sent' # sent) => word_i' >= Len(words') - 1]_vars

\* the last char of the second of two words completed the test
C8_Witness ==
    /\ Len(words) = 2
    /\ sent = 1
    /\ pc = "running"
    /\ word_i = 1
    /\ key.code = "Char"
    /\ key.chr # SPACE
    /\ ReplayYields(words[2].presses, words[2].word)

\* C9: when the user types n >= 1 non-empty words correctly, in order, with
\* one space between consecutive words, no completion message is sent before
\* the last char of the last word is handled and exactly one has been sent
\* once it is handled.
C9_FlawlessRunSignalsOnce ==
    (on_script /\ NonEmptyWords)
        => /\ pc = "running"
           /\ nevents < Len(Script(words)) => sent = 0
           /\ nevents = Len(Script(words)) => sent = 1

\* two words typed flawlessly to the end
C9_Witness ==
    /\ on_script
    /\ NonEmptyWords
    /\ Len(words) = 2
    /\ nevents = Len(Script(words))
    /\ word_i = 1
    /\ sent = 1

\* C10: writing the completion message never blocks and never panics the
\* engine: with the channel full, handle_events still returns.
C10_SendNeverBlocks == pc # "blocked"

-----------------------------------------------------------------------------
(* Claims on the single events *)

ActiveSlot == word_i + 1

IsDeleteWord(k) == k.code = "Backspace" /\ k.modifiers \cap {"CONTROL", "ALT"} # {}
IsDeleteChar(k) == k.code = "Backspace" /\ k.modifiers \cap {"CONTROL", "ALT"} = {}

SpansUnchanged == \A i \in 1..Len(words) : words'[i].spans = words[i].spans

\* C11: once the completion message has been sent, every later key event is
\* accepted without failure and leaves every slot's classification and
\* word_i unchanged.
C11_NoMutationAfterCompletion ==
    [][(HandledEvent /\ sent >= 1)
       => (/\ pc' # "panicked"
           /\ word_i' = word_i
           /\ SpansUnchanged)]_vars

\* C12 as stated: a delete-character event when word_i = 1 and slot 1's
\* classification is empty steps word_i back to 0, leaves slot 0's
\* classification unchanged, and appends the sentinel to slot 0's key log
\* and not to slot 1's.
C12_SentinelOnSlot0 ==
    [][(/\ HandledEvent
        /\ Len(words) >= 2
        /\ word_i = 1
        /\ words[2].spans = <<>>
        /\ IsDeleteChar(key'))
       => (/\ word_i' = 0
           /\ words'[1].spans = words[1].spans
           /\ words'[1].presses = Append(words[1].presses, BKSPC)
           /\ words'[2].presses = words[2].presses)]_vars

\* C12 as amended: the same event steps word_i back to 0, leaves slot 0's
\* classification and key log unchanged, and appends the sentinel to the
\* key log of slot 1, the slot that was active when the event arrived.
C12_SentinelOnSlot1 ==
    [][(/\ HandledEvent
        /\ Len(words) >= 2
        /\ word_i = 1
        /\ words[2].spans = <<>>
        /\ IsDeleteChar(key'))
       => (/\ word_i' = 0
           /\ pc' # "panicked"
           /\ words'[1] = words[1]
           /\ words'[2].spans = <<>>
           /\ words'[2].presses = Append(words[2].presses, BKSPC))]_vars

\* space, then Backspace on the empty slot 1
C12_Witness ==
    /\ Len(words) = 2
    /\ nevents = 2
    /\ key = KeyBackspace({})
    /\ word_i = 0
    /\ words[1].presses = <<SPACE>>
    /\ words[2].presses = <<BKSPC>>
    /\ words[2].spans = <<>>

\* C13: a space event on a slot that is not the last appends a space key
\* event to the active slot's log and advances word_i by exactly one,
\* whether or not anything was typed for the word, and leaves every slot's
\* classification unchanged.
C13_SpaceAdvances ==
    [][(/\ HandledEvent
        /\ word_i < Len(words) - 1
        /\ key' = KeyChar(SPACE))
       => (/\ word_i' = word_i + 1
           /\ pc' = "running"
           /\ words'[ActiveSlot].presses = Append(words[ActiveSlot].presses, SPACE)
           /\ \A i \in 1..Len(words) : i # ActiveSlot => words'[i].presses = words[i].presses
           /\ SpansUnchanged)]_vars

\* space was the very first key of a test with two words
C13_Witness ==
    /\ Len(words) = 2
    /\ nevents = 1
    /\ key = KeyChar(SPACE)
    /\ word_i = 1
    /\ words[1].presses = <<SPACE>>
    /\ words[1].spans = <<>>

\* C15: a Test built from a word source that yields zero words is reported
\* as a setup error at construction: there is no Test without words that
\* fails on its first key event.
C15_NoZeroWordTestFails ==
    ~(Len(words) = 0 /\ nevents = 1 /\ pc = "panicked")

\* C16: a delete-character event appends the sentinel to the log of the
\* slot active when it arrives and removes that slot's last classification
\* entry (none if empty); word_i decreases by one iff that classification is
\* then empty and word_i > 0; no other slot's classification changes.
C16_DeleteChar ==
    [][(/\ HandledEvent
        /\ word_i < Len(words)
        /\ IsDeleteChar(key'))
       => LET old == words[ActiveSlot]
              new == words'[ActiveSlot]
          IN  /\ pc' # "panicked"
              /\ new.presses = Append(old.presses, BKSPC)
              /\ new.spans = IF old.spans = <<>> THEN <<>>
                             ELSE SubSeq(old.spans, 1, Len(old.spans) - 1)
              /\ word_i' = IF new.spans = <<>> /\ word_i > 0
                           THEN word_i - 1 ELSE word_i
              /\ \A i \in 1..Len(words) : i # ActiveSlot => words'[i] = words[i]]_vars

\* the only typed char of slot 1 was deleted and the cursor is on slot 0
C16_Witness ==
    /\ Len(words) = 2
    /\ key = KeyBackspace({})
    /\ word_i = 0
    /\ Len(words[2].presses) = 2
    /\ Printable(words[2].presses[1])
    /\ words[2].presses[2] = BKSPC
    /\ words[2].spans = <<>>

\* C17: a delete-word event steps word_i back by one only if the active
\* slot's classification is empty and word_i > 0; it then appends the
\* delete-word sentinel to the log of the (possibly stepped-back) slot and
\* empties that slot's classification; nothing else changes.
C17_DeleteWord ==
    [][(/\ HandledEvent
        /\ word_i < Len(words)
        /\ IsDeleteWord(key'))
       => LET back == words[ActiveSlot].spans = <<>> /\ word_i > 0
              t == IF back THEN ActiveSlot - 1 ELSE ActiveSlot
          IN  /\ pc' # "panicked"
              /\ word_i' = IF back THEN word_i - 1 ELSE word_i
              /\ words'[t].presses = Append(words[t].presses, WORD_BKSPC)
              /\ words'[t].spans = <<>>
              /\ \A i \in 1..Len(words) : i # t => words'[i] = words[i]]_vars

\* C18: a single key event changes the key log and classification of at
\* most one slot: the slot at word_i, or for a delete-word on an empty
\* active slot the slot at word_i - 1; a slot below word_i is never changed
\* by a printable-character, space or delete-character event.
C18_OneSlotPerEvent ==
    [][HandledEvent
       => LET changed == {i \in 1..Len(words) : words'[i] # words[i]}
              walks_back == /\ IsDeleteWord(key')
                            /\ word_i < Len(words)
                            /\ word_i > 0
                            /\ words[ActiveSlot].spans = <<>>
          IN  /\ Len(words') = Len(words)
              /\ Cardinality(changed) <= 1
              /\ changed \subseteq (IF walks_back THEN {ActiveSlot - 1} ELSE {ActiveSlot})]_vars

\* a delete-word on the empty slot 1 walked back into slot 0 and reset it
C18_Witness ==
    /\ Len(words) = 2
    /\ IsDeleteWord(key)
    /\ word_i = 0
    /\ words[2].presses = <<>>
    /\ Len(words[1].presses) >= 3
    /\ words[1].presses[Len(words[1].presses)] = WORD_BKSPC
    /\ words[1].spans = <<>>

IsPrefix(a, b) == Len(a) <= Len(b) /\ SubSeq(b, 1, Len(a)) = a

\* C19: every slot's key log is append-only: each printable-character,
\* space, delete-character or delete-word event appends exactly one key
\* event to exactly one slot's log, any other key appends nothing, and no
\* event removes or reorders a key event.
C19_LogsAppendOnly ==
    [][(HandledEvent /\ Len(words) >= 1)
       => LET grown == {i \in 1..Len(words) :
                            Len(words'[i].presses) = Len(words[i].presses) + 1}
              same == {i \in 1..Len(words) : words'[i].presses = words[i].presses}
          IN  /\ Len(words') = Len(words)
              /\ \A i \in 1..Len(words) : IsPrefix(words[i].presses, words'[i].presses)
              /\ grown \cup same = 1..Len(words)
              /\ Cardinality(grown) = IF key'.code \in {"Char", "Backspace"} THEN 1 ELSE 0]_vars

-----------------------------------------------------------------------------
(* The render classification query as specified, in chars *)

SlotRender(active, tw) ==
    LET len == Len(tw.spans)
        n == Len(tw.word)
        rest(from) == [j \in 1..(IF from > n THEN 0 ELSE n - from + 1) |-> tw.word[from + j - 1]]
    IN  IF active
        THEN IF len < n
             THEN tw.spans \o <<Span(<<tw.word[len + 1]>>, "cursor"),
                                Span(rest(len + 2) \o <<SPACE>>, "untyped")>>
             ELSE Append(tw.spans, Span(<<SPACE>>, "cursor"))
        ELSE Append(tw.spans, Span(rest(len + 1) \o <<SPACE>>, "untyped"))

RenderSpec(ws, wi) == Flatten([i \in 1..Len(ws) |-> SlotRender(i - 1 = wi, ws[i])])

\* C14: the render query emits, slot by slot, the cached classification
\* entries, then for the active slot below its target length the next target
\* char as cursor and the remaining target chars plus a space as untyped, for
\* the active slot at or past its target length one cursor space only, and
\* for every other slot the target chars from the classification length on
\* plus a space as untyped; it never fails.
C14_RenderAsSpecified ==
    line.status # "none" => line = Rendered(RenderSpec(words, word_i))

-----------------------------------------------------------------------------
(* The language file as specified *)

DelimLines(f) == {j \in 1..Len(f) : f[j] = WORDLIST_DELIM}

\* the first delimiter line, or one past the end when there is none
FirstDelim(f) ==
    IF DelimLines(f) = {} THEN Len(f) + 1
    ELSE CHOOSE j \in DelimLines(f) : \A k \in DelimLines(f) : j <= k

InHeader(f, name) == \E j \in 1..(FirstDelim(f) - 1) : f[j] = name

AfterDelim(f) ==
    [j \in 1..(IF FirstDelim(f) >= Len(f) THEN 0 ELSE Len(f) - FirstDelim(f)) |->
        f[FirstDelim(f) + j]]

\* C20: get_by_path splits the file at the first delimiter line: a header
\* line naming a flag sets that flag and any other header line is ignored,
\* the delimiter is neither flag nor word, and every line after it, in file
\* order, is a word, later flag names and delimiters included; without a
\* delimiter there are no words.
C20_SplitAtFirstDelimiter ==
    (lang.status \in {"returned", "exited"} /\ lang.exists)
        => /\ lang.s.words = AfterDelim(lang.file)
           /\ lang.s.inorder = InHeader(lang.file, "inorder")
           /\ lang.s.punctuated = InHeader(lang.file, "punctuated")
           /\ lang.s.select_one = InHeader(lang.file, "select_one")
           /\ lang.s.select_all = InHeader(lang.file, "select_all")

\* a flag in the header, then the delimiter, a second delimiter and a flag
\* name, both kept as words
C20_Witness ==
    /\ lang.status = "returned"
    /\ lang.file = <<"inorder", WORDLIST_DELIM, WORDLIST_DELIM>>
         \/ lang.file = <<"inorder", WORDLIST_DELIM, "select_all">>
    /\ lang.s.inorder
    /\ ~lang.s.select_all
    /\ Len(lang.s.words) = 1

-----------------------------------------------------------------------------
(* The classification cache against the replay oracle *)

Replay(tw) == is_correct_loop(tw.presses, 1, <<>>)

AllTaggedCorrect(tw) == \A j \in 1..Len(tw.spans) : tw.spans[j].style = "typed"

\* C21: after any sequence of key events that does not fail, for every slot
\* the chars of its classification entries, in order, are the string its key
\* log replays to, and the entry at position i is tagged correct iff i is
\* below the target length and its char is the target char at i; hence
\* is_correct holds for a slot iff its classification has as many entries
\* as the target has chars and all of them are tagged correct.
C21_CacheIsReplay ==
    pc # "panicked"
        => \A i \in 1..Len(words) :
            LET tw == words[i]
            IN  /\ Len(tw.spans) = Len(Replay(tw))
                /\ \A j \in 1..Len(tw.spans) :
                    /\ tw.spans[j].content = <<Replay(tw)[j]>>
                    /\ tw.spans[j].style \in {"typed", "incorrect"}
                    /\ tw.spans[j].style = "typed"
                        <=> (j <= Len(tw.word) /\ Replay(tw)[j] = tw.word[j])
                /\ is_correct(tw)
                    <=> (Len(tw.spans) = Len(tw.word) /\ AllTaggedCorrect(tw))

\* a slot that was corrected with Backspace and then typed on, one entry
\* right and one wrong
C21_Witness ==
    /\ pc = "running"
    /\ \E i \in 1..Len(words) :
        /\ \E j \in 1..Len(words[i].presses) : words[i].presses[j] = BKSPC
        /\ Len(words[i].spans) = 2
        /\ words[i].spans[1].style = "typed"
        /\ words[i].spans[2].style = "incorrect"

-----------------------------------------------------------------------------
(* The cursor in the rendered line *)

CursorEntries(spans) == {p \in 1..Len(spans) : spans[p].style = "cursor"}

RECURSIVE EntriesBefore(_, _)
\* what the slots below index wi put on the line: their classification
\* entries and one untyped entry each
EntriesBefore(ws, wi) ==
    IF wi = 0 THEN 0 ELSE EntriesBefore(ws, wi - 1) + Len(ws[wi].spans) + 1

\* the entry right after the classification entries of the slot at wi
CursorPlace(ws, wi) == EntriesBefore(ws, wi) + Len(ws[wi + 1].spans) + 1

\* C22: in every reachable state in which word_i is a valid slot index,
\* the output of words_to_line holds exactly one cursor-tagged entry and it
\* belongs to the slot at word_i: it follows that slot's classification
\* entries; no other slot contributes a cursor entry.
C22_OneCursorOnActiveSlot ==
    (word_i < Len(words) /\ line.status # "none")
        => /\ line.status = "ok"
           /\ CursorEntries(line.spans) = {CursorPlace(words, word_i)}

-----------------------------------------------------------------------------
(* The host loop and the completion message *)

\* the completion message was sent by the key just handled and waits for
\* the try_recv of the same pass
CompletionPending == ui.at = "recv" /\ Len(tx) = 1 /\ ui.screen = "TestScreen"

\* the host has taken the completion message and left the test screen
CompletionTaken == tx = <<>> /\ ui.screen \in {"ResultsScreen", "AboutScreen"}

\* C23: in the loop of Ui::run, once the Test has sent the completion
\* message the host sets the screen to ResultsScreen in the try_recv of the
\* same pass, before it reads the next key, and the test screen never
\* becomes current again; so no key event reaches Test::handle_events after
\* the first completion message, the channel never holds more than one
\* message, and the send never blocks.
C23_HostStopsForwarding ==
    /\ [](/\ sent >= 1 => (CompletionPending \/ CompletionTaken)
          /\ Len(tx) <= 1
          /\ pc # "blocked")
    /\ [][/\ (ui.at = "recv" /\ tx # <<>>) => ui'.screen = "ResultsScreen"
          /\ sent >= 1 => (nevents' = nevents /\ sent' = sent)]_vars

\* after completion the user opened the About screen from the results
\* screen and left it again with Esc: the results screen is shown, and the
\* Test was handed none of these keys
C23_Witness ==
    /\ sent = 1
    /\ ui.screen = "ResultsScreen"
    /\ ui.opened_from = "ResultsScreen"
    /\ ui.last_screen = "AboutScreen"
    /\ ui.key = KeyEsc
    /\ ui.nkeys >= nevents + 2
    /\ Len(words) = 2

\* the host handled the key k while the About screen was shown
KeyOnAbout(k) ==
    /\ ui.at = "events"
    /\ ui'.at = "recv"
    /\ ui.screen = "AboutScreen"
    /\ ui'.key = k

\* C24: for any sequence of F1, Esc and 'q' key presses in the host,
\* pressing Esc or 'q' while the About screen is shown goes back to the
\* screen that was shown before the About screen was opened, also when F1
\* was pressed again on the About screen.
C24_BackFromAbout ==
    [][(KeyOnAbout(KeyEsc) \/ KeyOnAbout(KeyQ))
       => ui'.screen = ui.opened_from]_vars

====
